---- MODULE Spec2Model ----
(***************************************************************************)
(* Model of src/apputil.py: class GroupEstimate (constructor, fit,         *)
(* predict).                                                               *)
(*                                                                         *)
(* A DataFrame is a record [cols, rows]: cols is the ordered list of       *)
(* column names and every row is a tuple of category values aligned        *)
(* positionally with cols.  Estimates are exact rationals [num, den] in    *)
(* lowest terms; NaN is the rational with denominator 0.  An attribute     *)
(* that may be None is <<>> (None) or <<v>> (the value v).                 *)
(***************************************************************************)
EXTENDS Integers, Sequences, FiniteSets, TLC

VARIABLES estimate, _group_map, _cols, _default_category, _default_map,
          trained, fits, op, argQ, outcome, results, notice

vars == <<estimate, _group_map, _cols, _default_category, _default_map,
          trained, fits, op, argQ, outcome, results, notice>>

\* The four attributes fit assigns (estimate is fixed by the constructor).
estState == <<_cols, _group_map, _default_category, _default_map>>

----------------------------------------------------------------------------
\* Bounds of the model.
MaxRows == 1
MaxOnceRows == 2
MaxAggRows == 3
MaxQueryRows == 2

ColumnNames == {"city", "store"}
Values == {"A", "B"}
Targets == {1, 2}
EstimateKinds == {"mean", "median"}

----------------------------------------------------------------------------
\* Optional values.
None == <<>>
Some(v) == <<v>>
IsNone(o) == o = <<>>
Val(o) == o[1]

\* Exact rationals.
RECURSIVE GCD(_, _)
GCD(a, b) == IF b = 0 THEN a ELSE GCD(b, a % b)

Frac(n, d) == [num |-> n \div GCD(n, d), den |-> d \div GCD(n, d)]

NaN == [num |-> 0, den |-> 0]

----------------------------------------------------------------------------
\* Sequences.
Range(s) == {s[i] : i \in 1..Len(s)}

SeqsUpTo(S, n) == UNION {[1..k -> S] : k \in 0..n}

RECURSIVE Sum(_)
Sum(s) == IF s = <<>> THEN 0 ELSE Head(s) + Sum(Tail(s))

RECURSIVE Insert(_, _)
Insert(x, s) ==
    IF s = <<>> THEN <<x>>
    ELSE IF x <= Head(s) THEN <<x>> \o s
    ELSE <<Head(s)>> \o Insert(x, Tail(s))

RECURSIVE Sorted(_)
Sorted(s) == IF s = <<>> THEN <<>> ELSE Insert(Head(s), Sorted(Tail(s)))

\* DataFrames.
ColumnLists == {c \in SeqsUpTo(ColumnNames, Cardinality(ColumnNames)) :
                  Len(c) > 0 /\ Cardinality(Range(c)) = Len(c)}

Frames(n) == UNION {{[cols |-> c, rows |-> r] :
                        r \in SeqsUpTo([1..Len(c) -> Values], n)} : c \in ColumnLists}

\* Training frames have at least one row.
TrainingFrames(n) == {X \in Frames(n) : Len(X.rows) > 0}

NoFrame == [cols |-> <<>>, rows |-> <<>>]

ColumnIndex(cols, col) == CHOOSE j \in 1..Len(cols) : cols[j] = col

\* row[col] on a row of a frame whose columns are cols.
RowValue(cols, row, col) == row[ColumnIndex(cols, col)]

----------------------------------------------------------------------------
\* np.mean / np.median over the target values of one group.
Mean(vals) == Frac(Sum(vals), Len(vals))

MedianLowerMiddle(vals) ==
    LET s == Sorted(vals)
    IN  Frac(s[(Len(s) + 1) \div 2], 1)

Median(vals) ==
    LET s == Sorted(vals)
        n == Len(s)
    IN  IF n % 2 = 1 THEN Frac(s[(n + 1) \div 2], 1)
        ELSE Frac(s[n \div 2] + s[n \div 2 + 1], 2)

agg_func(est, vals) == IF est = "mean" THEN Mean(vals) ELSE Median(vals)

\* tuple(row[col] for col in by) on a row of a frame whose columns are cols.
RowKey(cols, row, by) == [j \in 1..Len(by) |-> RowValue(cols, row, by[j])]

\* The "_y" values of the rows whose key over the columns `by` is `key`, in
\* row order (one group of combined.groupby(by)).
RECURSIVE GroupValues(_, _, _, _, _)
GroupValues(cols, rows, y, by, key) ==
    IF rows = <<>> THEN <<>>
    ELSE (IF RowKey(cols, Head(rows), by) = key THEN <<Head(y)>> ELSE <<>>)
         \o GroupValues(cols, Tail(rows), Tail(y), by, key)

\* The keys of combined.groupby(by, observed=True): those of the rows.
GroupKeys(cols, rows, by) == {RowKey(cols, rows[i], by) : i \in 1..Len(rows)}

\* group_map: tuple of the values of all columns -> aggregate.
BuildGroupMap(est, X, y) ==
    [key \in GroupKeys(X.cols, X.rows, X.cols) |->
        agg_func(est, GroupValues(X.cols, X.rows, y, X.cols, key))]

BuildDefaultMapFirstColumn(est, X, y, dc) ==
    [v \in {k[1] : k \in GroupKeys(X.cols, X.rows, <<X.cols[1]>>)} |->
        agg_func(est, GroupValues(X.cols, X.rows, y, <<X.cols[1]>>, <<v>>))]

\* default_map: value of the default column -> aggregate.
BuildDefaultMap(est, X, y, dc) ==
    [v \in {k[1] : k \in GroupKeys(X.cols, X.rows, <<dc>>)} |->
        agg_func(est, GroupValues(X.cols, X.rows, y, <<dc>>, <<v>>))]

----------------------------------------------------------------------------
\* fit(X, y, default_category): the value of each attribute when the call
\* ends, normally or by raising, given its value `old` when the call starts.

LengthsDiffer(X, y) == Len(X.rows) # Len(y)

BadDefaultCategory(X, dc) == ~IsNone(dc) /\ Val(dc) \notin Range(X.cols)

FitOutcome(X, y, dc) ==
    IF LengthsDiffer(X, y) THEN "ShapeMismatch"
    ELSE IF BadDefaultCategory(X, dc) THEN "InvalidConfiguration"
    ELSE "ok"

FitColsUnchecked(old, X, y) == Some(X.cols)

FitCols(old, X, y) ==
    IF LengthsDiffer(X, y) THEN old ELSE Some(X.cols)

FitDefaultCategory(old, X, y, dc) ==
    IF LengthsDiffer(X, y) THEN old ELSE dc

FitGroupMap(old, est, X, y) ==
    IF LengthsDiffer(X, y) THEN old ELSE Some(BuildGroupMap(est, X, y))

FitDefaultMapKeep(old, est, X, y, dc) ==
    IF LengthsDiffer(X, y) THEN old
    ELSE IF ~IsNone(dc)
         THEN IF Val(dc) \notin Range(X.cols) THEN old
              ELSE Some(BuildDefaultMap(est, X, y, Val(dc)))
         ELSE old

FitDefaultMap(old, est, X, y, dc) ==
    IF LengthsDiffer(X, y) THEN old
    ELSE IF ~IsNone(dc)
         THEN IF Val(dc) \notin Range(X.cols) THEN old
              ELSE Some(BuildDefaultMap(est, X, y, Val(dc)))
         ELSE None

\* What the most recent fit call that got past the length check was given:
\* the frame and targets that its local `combined` holds, and default_category.
FitTrained(old, X, y, dc) ==
    IF LengthsDiffer(X, y) THEN old
    ELSE [cols |-> X.cols, rows |-> X.rows, y |-> y, default_category |-> dc]

----------------------------------------------------------------------------
\* predict(X_)

ReorderRelabel(Xp, cols) == [cols |-> cols, rows |-> Xp.rows]

\* Xp[self._cols]: the columns of Xp rearranged into the order `cols`.
Reorder(Xp, cols) ==
    [cols |-> cols,
     rows |-> [i \in 1..Len(Xp.rows) |-> RowKey(Xp.cols, Xp.rows[i], cols)]]

ResolveRowDefaultFirst(gm, cols, dcat, dmap, xcols, row) ==
    LET key == RowKey(xcols, row, cols)
    IN  IF ~IsNone(dmap) /\ ~IsNone(dcat) /\ Val(dcat) \in Range(xcols)
           /\ RowValue(xcols, row, Val(dcat)) \in DOMAIN Val(dmap)
        THEN [raised |-> FALSE,
              value |-> Val(dmap)[RowValue(xcols, row, Val(dcat))], missing |-> 0]
        ELSE IF key \in DOMAIN gm
        THEN [raised |-> FALSE, value |-> gm[key], missing |-> 0]
        ELSE [raised |-> FALSE, value |-> NaN, missing |-> 1]

ResolveRowFallbackMissing(gm, cols, dcat, dmap, xcols, row) ==
    LET key == RowKey(xcols, row, cols)
    IN  IF key \in DOMAIN gm
        THEN [raised |-> FALSE, value |-> gm[key], missing |-> 0]
        ELSE IF ~IsNone(dmap)
             THEN IF IsNone(dcat) \/ Val(dcat) \notin Range(xcols)
                  THEN [raised |-> TRUE, value |-> NaN, missing |-> 0]
                  ELSE IF RowValue(xcols, row, Val(dcat)) \in DOMAIN Val(dmap)
                       THEN [raised |-> FALSE,
                             value |-> Val(dmap)[RowValue(xcols, row, Val(dcat))],
                             missing |-> 1]
                       ELSE [raised |-> FALSE, value |-> NaN, missing |-> 1]
             ELSE [raised |-> FALSE, value |-> NaN, missing |-> 1]

\* One iteration of the row loop: the estimate appended for the row, whether
\* it counts as missing, or the KeyError of row[self._default_category].
ResolveRow(gm, cols, dcat, dmap, xcols, row) ==
    LET key == RowKey(xcols, row, cols)
    IN  IF key \in DOMAIN gm
        THEN [raised |-> FALSE, value |-> gm[key], missing |-> 0]
        ELSE IF ~IsNone(dmap)
             THEN IF IsNone(dcat) \/ Val(dcat) \notin Range(xcols)
                  THEN [raised |-> TRUE, value |-> NaN, missing |-> 0]
                  ELSE IF RowValue(xcols, row, Val(dcat)) \in DOMAIN Val(dmap)
                       THEN [raised |-> FALSE,
                             value |-> Val(dmap)[RowValue(xcols, row, Val(dcat))],
                             missing |-> 0]
                       ELSE [raised |-> FALSE, value |-> NaN, missing |-> 1]
             ELSE [raised |-> FALSE, value |-> NaN, missing |-> 1]

\* The row loop from row i on, then the print and the return.
RECURSIVE PredictRows(_, _, _, _, _, _, _, _)
PredictRows(gm, cols, dcat, dmap, Xp, i, res, missing_count) ==
    IF i > Len(Xp.rows)
    THEN [outcome |-> "ok", results |-> res,
          notice |-> IF missing_count > 0 THEN <<missing_count>> ELSE <<>>]
    ELSE LET r == ResolveRow(gm, cols, dcat, dmap, Xp.cols, Xp.rows[i])
         IN  IF r.raised
             THEN [outcome |-> "KeyError", results |-> <<>>, notice |-> <<>>]
             ELSE PredictRows(gm, cols, dcat, dmap, Xp, i + 1,
                              Append(res, r.value), missing_count + r.missing)

PredictCall(gmap, cols, dcat, dmap, Q) ==
    IF IsNone(gmap) \/ IsNone(cols)
    THEN [outcome |-> "NotFitted", results |-> <<>>, notice |-> <<>>]
    ELSE IF Q.cols # Val(cols) /\ Range(Q.cols) # Range(Val(cols))
    THEN [outcome |-> "SchemaMismatch", results |-> <<>>, notice |-> <<>>]
    ELSE LET Xp == IF Q.cols # Val(cols) THEN Reorder(Q, Val(cols)) ELSE Q
         IN  PredictRows(Val(gmap), Val(cols), dcat, dmap, Xp, 1, <<>>, 0)

----------------------------------------------------------------------------
\* The state machine: one instance, any sequence of fit and predict calls.

\* default_category arguments: None or a column name (a frame with the one
\* column "city" does not have the column "store").
DefaultCategories == {None} \cup {Some(c) : c \in ColumnNames}

\* The caller is between calls (op = "idle") or holds what its last call,
\* op, gave: the exception or "ok", the returned list, the printed notices.
Init ==
    /\ estimate \in EstimateKinds
    /\ _group_map = None
    /\ _cols = None
    /\ _default_category = None
    /\ _default_map = None
    /\ trained = [cols |-> <<>>, rows |-> <<>>, y |-> <<>>, default_category |-> None]
    /\ fits = 0
    /\ op = "idle"
    /\ argQ = NoFrame
    /\ outcome = "none"
    /\ results = <<>>
    /\ notice = <<>>

\* fits counts the fit calls that returned normally: 0, 1, or 2 for "two or more".
Fit(X, y, dc) ==
    /\ op = "idle"
    /\ _cols' = FitCols(_cols, X, y)
    /\ _default_category' = FitDefaultCategory(_default_category, X, y, dc)
    /\ _group_map' = FitGroupMap(_group_map, estimate, X, y)
    /\ _default_map' = FitDefaultMap(_default_map, estimate, X, y, dc)
    /\ trained' = FitTrained(trained, X, y, dc)
    /\ outcome' = FitOutcome(X, y, dc)
    /\ fits' = IF FitOutcome(X, y, dc) = "ok" THEN (IF fits = 0 THEN 1 ELSE 2) ELSE fits
    /\ op' = "fit"
    /\ argQ' = NoFrame
    /\ results' = <<>>
    /\ notice' = <<>>
    /\ UNCHANGED estimate

Predict(Q) ==
    LET r == PredictCall(_group_map, _cols, _default_category, _default_map, Q)
    IN  /\ op = "idle"
        /\ op' = "predict"
        /\ argQ' = Q
        /\ outcome' = r.outcome
        /\ results' = r.results
        /\ notice' = r.notice
        /\ UNCHANGED <<estimate, _group_map, _cols, _default_category,
                       _default_map, trained, fits>>

\* The caller drops what the call gave and is ready for its next call.
Return ==
    /\ op # "idle"
    /\ op' = "idle"
    /\ argQ' = NoFrame
    /\ outcome' = "none"
    /\ results' = <<>>
    /\ notice' = <<>>
    /\ UNCHANGED <<estimate, _group_map, _cols, _default_category,
                   _default_map, trained, fits>>

\* Any sequence of fit and predict calls on one instance.
Next ==
    \/ /\ op = "idle"
       /\ \E X \in TrainingFrames(MaxRows), y \in SeqsUpTo(Targets, MaxRows),
             dc \in DefaultCategories : Fit(X, y, dc)
    \/ /\ op = "idle"
       /\ \E Q \in Frames(MaxQueryRows) : Predict(Q)
    \/ Return

Spec == Init /\ [][Next]_vars

\* One fit call that gets past the length check, on a new instance, then any
\* number of predict calls.
NextOnce ==
    \/ /\ op = "idle" /\ IsNone(_cols)
       /\ \E X \in TrainingFrames(MaxOnceRows), y \in SeqsUpTo(Targets, MaxOnceRows),
             dc \in DefaultCategories : Fit(X, y, dc)
    \/ /\ op = "idle"
       /\ \E Q \in Frames(MaxQueryRows) : Predict(Q)
    \/ Return

SpecOnce == Init /\ [][NextOnce]_vars

\* The first fit call on a new instance, on larger training frames.
NextAgg ==
    /\ op = "idle" /\ IsNone(_cols)
    /\ \E X \in TrainingFrames(MaxAggRows), y \in SeqsUpTo(Targets, MaxAggRows),
          dc \in DefaultCategories : Fit(X, y, dc)

SpecAgg == Init /\ [][NextAgg]_vars

----------------------------------------------------------------------------
\* Properties.

\* The query of the last predict call, read as the caller wrote it: the value
\* of row i in the column named col, and the row's values in fitted order.
QueryHas(col) == \E j \in 1..Len(argQ.cols) : argQ.cols[j] = col

QueryValue(i, col) ==
    argQ.rows[i][CHOOSE j \in 1..Len(argQ.cols) : argQ.cols[j] = col]

QueryKey(i) == [j \in 1..Len(Val(_cols)) |-> QueryValue(i, Val(_cols)[j])]

QueryRows == 1..Len(argQ.rows)

\* The query has exactly the fitted columns, in any order.
SameColumnSet ==
    /\ ~IsNone(_cols)
    /\ \A c \in Range(Val(_cols)) : QueryHas(c)
    /\ \A j \in 1..Len(argQ.cols) : argQ.cols[j] \in Range(Val(_cols))

KeyKnown(i) == QueryKey(i) \in DOMAIN Val(_group_map)

\* The row has a value in the default column and the default table has it.
DefaultKnown(i) ==
    /\ ~IsNone(_default_map)
    /\ ~IsNone(_default_category)
    /\ QueryHas(Val(_default_category))
    /\ QueryValue(i, Val(_default_category)) \in DOMAIN Val(_default_map)

\* Aggregates, stated without sorting or dividing.  I is a set of training
\* rows (indices into trained.rows and trained.y).
RECURSIVE SumOver(_)
SumOver(I) ==
    IF I = {} THEN 0
    ELSE LET i == CHOOSE j \in I : TRUE IN trained.y[i] + SumOver(I \ {i})

\* v is the k-th smallest target of the rows I.
IsKthSmallest(I, k, v) ==
    /\ Cardinality({i \in I : trained.y[i] < v}) < k
    /\ k <= Cardinality({i \in I : trained.y[i] <= v})

IsMeanOf(I, e) ==
    /\ e.den > 0
    /\ e.num * Cardinality(I) = SumOver(I) * e.den

IsMedianOf(I, e) ==
    LET n == Cardinality(I)
    IN  /\ e.den > 0
        /\ \E lo, hi \in {trained.y[i] : i \in I} :
              /\ IsKthSmallest(I, (n + 1) \div 2, lo)
              /\ IsKthSmallest(I, n \div 2 + 1, hi)
              /\ 2 * e.num = (lo + hi) * e.den

IsAggregateOf(I, e) ==
    IF estimate = "mean" THEN IsMeanOf(I, e) ELSE IsMedianOf(I, e)

TrainingRows == 1..Len(trained.rows)

\* The training rows whose value in the column named col is v.
RowsWithValue(col, v) ==
    {i \in TrainingRows :
        \E j \in 1..Len(trained.cols) :
            trained.cols[j] = col /\ trained.rows[i][j] = v}

----------------------------------------------------------------------------
\* C1 -- Exact-match priority.  After a successful fit, predict on a query
\* with the fitted columns returns one value per row, and for every row whose
\* full key is in the group lookup table that value is the table's value for
\* the key, whatever the default lookup table holds.
ExactMatchPriority ==
    (op = "predict" /\ fits > 0 /\ SameColumnSet) =>
        /\ outcome = "ok"
        /\ Len(results) = Len(argQ.rows)
        /\ \A i \in QueryRows :
              KeyKnown(i) => results[i] = Val(_group_map)[QueryKey(i)]

\* A row whose key is known and whose default-column value maps to a
\* different estimate in the default table.
ExactMatchPriorityWitness ==
    /\ op = "predict" /\ fits > 0 /\ SameColumnSet /\ outcome = "ok"
    /\ \E i \in QueryRows :
          /\ KeyKnown(i)
          /\ DefaultKnown(i)
          /\ Val(_default_map)[QueryValue(i, Val(_default_category))]
                # Val(_group_map)[QueryKey(i)]

\* C2 -- Fallback correctness.  After a successful fit with a
\* default_category, every row whose full key is not in the group lookup table
\* and whose default-column value is in the default lookup table gets the
\* default table's value: a number, the aggregate of the targets of all the
\* training rows that share the default-column value.
FallbackCorrectness ==
    (op = "predict" /\ fits > 0 /\ SameColumnSet /\ ~IsNone(_default_map)) =>
        /\ outcome = "ok"
        /\ Len(results) = Len(argQ.rows)
        /\ \A i \in QueryRows :
              (~KeyKnown(i) /\ DefaultKnown(i)) =>
                  LET v == QueryValue(i, Val(_default_category))
                  IN  /\ results[i] = Val(_default_map)[v]
                      /\ results[i] # NaN
                      /\ RowsWithValue(Val(_default_category), v) # {}
                      /\ IsAggregateOf(RowsWithValue(Val(_default_category), v),
                                       results[i])

\* A fallback row whose default-column value is shared by two training rows
\* with different targets.
FallbackCorrectnessWitness ==
    /\ op = "predict" /\ fits > 0 /\ SameColumnSet /\ outcome = "ok"
    /\ \E i \in QueryRows :
          /\ ~KeyKnown(i)
          /\ DefaultKnown(i)
          /\ \E a, b \in RowsWithValue(Val(_default_category),
                                       QueryValue(i, Val(_default_category))) :
                trained.y[a] # trained.y[b]

\* C3 -- Missing marker and notice.  In every predict call that returns, a row
\* gets NaN iff its full key is not in the group lookup table and the default
\* lookup table is absent or does not have the row's default-column value;
\* the notice is printed once, with N = the number of NaN rows, iff N > 0.  A
\* predict call that raises prints no notice.
NaNRows == {i \in 1..Len(results) : results[i] = NaN}

MissingMarkerAndNotice ==
    /\ (op = "predict" /\ outcome = "ok") =>
          /\ Len(results) = Len(argQ.rows)
          /\ \A i \in QueryRows :
                results[i] = NaN <=> (~KeyKnown(i) /\ ~DefaultKnown(i))
          /\ notice = IF Cardinality(NaNRows) > 0
                      THEN <<Cardinality(NaNRows)>> ELSE <<>>
    /\ (op = "predict" /\ outcome # "ok") => notice = <<>>

\* Two rows, a default table, one row resolved by it and one row missing.
MissingMarkerAndNoticeWitness ==
    /\ op = "predict" /\ outcome = "ok"
    /\ Len(results) = 2
    /\ notice = <<1>>
    /\ \E i \in QueryRows : ~KeyKnown(i) /\ DefaultKnown(i)

\* C4 -- Group lookup correctness.  After a successful fit the keys of the
\* group lookup table are exactly the value tuples of the training rows, and
\* each key's value is the configured aggregate (mean, or median with the two
\* middle values averaged on an even count) of the targets of exactly the
\* rows with that tuple.
RowsWithTuple(key) == {i \in TrainingRows : trained.rows[i] = key}

GroupLookupCorrect ==
    (op = "fit" /\ outcome = "ok") =>
        /\ DOMAIN Val(_group_map) = {trained.rows[i] : i \in TrainingRows}
        /\ \A key \in DOMAIN Val(_group_map) :
              IsAggregateOf(RowsWithTuple(key), Val(_group_map)[key])

\* A median fit on two columns whose rows all have the same tuple (one key,
\* not the cross product): three rows whose median is not their mean.
GroupLookupCorrectWitness ==
    /\ op = "fit" /\ outcome = "ok" /\ estimate = "median"
    /\ Len(trained.cols) = 2
    /\ \E key \in DOMAIN Val(_group_map) :
          /\ DOMAIN Val(_group_map) = {key}
          /\ Cardinality(RowsWithTuple(key)) = 3
          /\ ~IsMeanOf(RowsWithTuple(key), Val(_group_map)[key])

\* C5 -- NotFitted.  While no fit call has completed successfully, every
\* predict call fails with NotFitted and returns no estimates.
NotFittedUntilFitSucceeds ==
    (op = "predict" /\ fits = 0) => (outcome = "NotFitted" /\ results = <<>>)

\* C6 -- A fit call on a fitted instance that fails on its default_category
\* leaves the estimator state as it was.
BadDefaultFitIsAtomic ==
    [][(fits > 0 /\ op' = "fit" /\ outcome' = "InvalidConfiguration")
          => estState' = estState]_vars

\* C7 -- A fit call that fails on the lengths of the frame and the targets
\* leaves every component of the estimator state as it was, on an unfitted
\* and on a fitted instance.
ShapeMismatchFitIsAtomic ==
    [][(op' = "fit" /\ outcome' = "ShapeMismatch")
          => (estState' = estState /\ fits' = fits)]_vars

\* A fitted instance with a default table, after a fit call that failed on
\* the lengths.
ShapeMismatchFitIsAtomicWitness ==
    /\ op = "fit" /\ outcome = "ShapeMismatch"
    /\ fits > 0
    /\ ~IsNone(_default_map)

\* C8 -- Fit replaces, never merges.  After a successful fit the estimator
\* state is the state a new instance of the same estimate kind has after that
\* fit call alone.
TrainedFrame == [cols |-> trained.cols, rows |-> trained.rows]

FitReplaces ==
    (op = "fit" /\ outcome = "ok") =>
        /\ _cols = FitCols(None, TrainedFrame, trained.y)
        /\ _group_map = FitGroupMap(None, estimate, TrainedFrame, trained.y)
        /\ _default_category = trained.default_category
        /\ _default_map = FitDefaultMap(None, estimate, TrainedFrame, trained.y,
                                        trained.default_category)
        /\ IsNone(trained.default_category) => IsNone(_default_map)

\* A second successful fit, without default_category.
FitReplacesWitness ==
    /\ op = "fit" /\ outcome = "ok"
    /\ fits = 2
    /\ IsNone(trained.default_category)
    /\ DOMAIN Val(_group_map) # {}

\* C9 -- Unknown groups never abort a batch.  A predict call on a query with
\* the recorded columns fails with NotFitted or returns one value per row,
\* and predict raises nothing but NotFitted and SchemaMismatch.
UnknownGroupsNeverAbort ==
    /\ (op = "predict" /\ SameColumnSet) =>
          \/ outcome = "NotFitted"
          \/ outcome = "ok" /\ Len(results) = Len(argQ.rows)
    /\ op = "predict" => outcome \in {"ok", "NotFitted", "SchemaMismatch"}

\* C10 -- Column-order independence of predict.  After a successful fit, a
\* query with the fitted columns in another order gets the values and the
\* notice that the same rows get when written in the fitted column order.
CanonicalQuery ==
    [cols |-> Val(_cols), rows |-> [i \in QueryRows |-> QueryKey(i)]]

ColumnOrderIndependent ==
    (op = "predict" /\ fits > 0 /\ SameColumnSet /\ argQ.cols # Val(_cols)) =>
        LET c == PredictCall(_group_map, _cols, _default_category, _default_map,
                             CanonicalQuery)
        IN  /\ outcome = "ok"
            /\ c.outcome = "ok"
            /\ results = c.results
            /\ notice = c.notice

\* A reordered query of two rows: one resolved by its key, whose values in
\* the two columns differ, and one resolved by the default table.
ColumnOrderIndependentWitness ==
    /\ op = "predict" /\ fits > 0 /\ SameColumnSet /\ argQ.cols # Val(_cols)
    /\ outcome = "ok"
    /\ \E i, k \in QueryRows :
          /\ KeyKnown(i) /\ argQ.rows[i][1] # argQ.rows[i][2]
          /\ ~KeyKnown(k) /\ DefaultKnown(k)

====
